---- MODULE Spec2Model ----
(***************************************************************************)
(* Model of linkedin-job-api: LinkedInClient (fetch orchestration under an *)
(* asyncio.Semaphore) on top of ResilientAsyncSession (retry, exponential  *)
(* backoff, proxy rotation).  Every action is one run of a coroutine       *)
(* between two suspension points of the asyncio event loop.                *)
(***************************************************************************)
EXTENDS Integers, Sequences, FiniteSets, TLC

(* ---------------- program constants ---------------- *)
LINKEDIN_PAGE_SIZE == 10
LINKEDIN_JOB_QUERY_LIMIT == 1000
RETRY_COUNT == 3

(* ---------------- bounds of the model ---------------- *)
MaxTasks == 2        \* page/detail tasks created over a run of Spec
MaxCalls == 2        \* public operations called over a run of Spec
MaxRequests == 2     \* fetch_job_details calls over a run of SpecExec
MaxPlans == 2        \* fetch_jobs calls over a run of SpecArgs
MaxPlanned == 3      \* page tasks created over a run of SpecArgs
MaxN == 2            \* max_concurrent_requests ranges over 0..MaxN
ShortPage == 3       \* size of a listing page that is not full
LogWindow == 4       \* attempts remembered in attempt_log
MaxCriteria == 2     \* job-criteria items of a detail page
MaxLiveCalls == 1    \* public operations called over a run of SpecFew, SpecLive
MaxLiveTasks == 2    \* page/detail tasks created over a run of SpecFew, SpecLive

(* ---------------- inputs ---------------- *)
\* err.response is None / no response object
NoResponse == 0
\* limit argument: <<>> is None, <<n>> is the integer n
None == <<>>
\* (offset, limit) arguments of fetch_jobs
JobsArgs == {<<995, None>>, <<0, <<11>>>>, <<0, <<25>>>>}
\* the arguments of fetch_jobs around every boundary of its validation
WideOffsets == {-1, 0, 5, 975, 985, 1000, 1001}
WideLimits == {None, <<-1>>, <<0>>, <<1>>, <<10>>, <<11>>, <<25>>, <<1001>>}
Ids == {7001}
IdLists == {<<7001, 7002>>, <<7002, 7002>>}
ProxyConfigs == {<<>>, <<"A", "B", "C">>}
Statuses == {200, 304, 404, 429, 503}
PageYields == {ShortPage, LINKEDIN_PAGE_SIZE}

\* what one call of the transport (AsyncSession.request) can produce
TransportOutcomes ==
    [type : {"response"}, status : Statuses]
    \cup {[type |-> "RequestsError", status |-> NoResponse],
          [type |-> "Exception", status |-> NoResponse]}

\* the operations of a run under fair scheduling
LiveJobsArgs == {<<0, <<11>>>>}
LiveIdLists == {<<7001, 7002>>}

\* one outcome of each kind: success, refused for good, worth a retry
TypicalOutcomes ==
    {[type |-> "response", status |-> 200], [type |-> "response", status |-> 404],
     [type |-> "response", status |-> 503]}

\* what the parsers can produce from a body: a ValueError, or the records
\* (some number of a listing page, the one of a detail page)
ParseFailure == [ok |-> FALSE, n |-> 0]
ParseOutcomes == [ok : {TRUE}, n : PageYields] \cup {ParseFailure}
DetailOutcomes == {[ok |-> TRUE, n |-> 1], ParseFailure}

NoError == [type |-> "", status |-> NoResponse]

\* an enum member, by its value: a string (EmploymentType) or an integer
\* (ExperienceLevel, WorkMode)
StrMember(s) == [int |-> FALSE, s |-> s, n |-> 0]
IntMember(n) == [int |-> TRUE, s |-> "", n |-> n]

\* JobFilter values: an Optional field is None or <<value>>; age is a
\* timedelta, in milliseconds
JobFilters ==
    [title : {None, <<"python">>},
     location : {"United States", "Berlin"},
     employment_types : {None, << <<>> >>, << <<StrMember("F")>> >>,
                         << <<StrMember("F"), StrMember("P")>> >>},
     experience_levels : {None, << <<>> >>, << <<IntMember(2), IntMember(4)>> >>},
     work_modes : {None, << <<>> >>, << <<IntMember(2)>> >>},
     few_applicants : {None, <<TRUE>>, <<FALSE>>},
     age : {None, <<86400000>>, <<1500>>}]
\* text as a sequence of tokens: words, blanks (" ") and runs of digits
Word(w) == [digits |-> FALSE, text |-> w, n |-> 0]
Digits(n) == [digits |-> TRUE, text |-> "", n |-> n]

\* the job-criteria items of a detail page: the text of the subheader and of
\* the value (None: the element is not there)
CriteriaKeys == {"Employment type", "Seniority level", "Job function"}
CriteriaValues == {"Full-time", "Internship", "Director", "Volunteer"}
CriteriaItems ==
    [key : {<<k>> : k \in CriteriaKeys}, value : {<<v>> : v \in CriteriaValues}]
    \cup {[key |-> None, value |-> <<"Full-time">>]}
RECURSIVE SeqsUpTo(_, _)
SeqsUpTo(S, n) ==
    IF n = 0 THEN {<<>>}
    ELSE LET shorter == SeqsUpTo(S, n - 1)
         IN shorter \cup {Append(q, x) : q \in shorter, x \in S}

\* detail pages: the contents of the description element and the text of the
\* applicant-count element (None: the element is not there), and the items
DetailPages ==
    [description : {None, << <<Word(" ")>> >>,
                    << <<Word(" "), Word("Build"), Word(" ")>> >>},
     criterias : SeqsUpTo(CriteriaItems, MaxCriteria),
     num_applicants : {None, << <<Word("Be"), Word("early")>> >>,
                       << <<Word("Over"), Digits(200), Word("applicants")>> >>}]

DefaultFilter ==
    [title |-> None, location |-> "United States", employment_types |-> None,
     experience_levels |-> None, work_modes |-> None, few_applicants |-> None,
     age |-> None]

VARIABLES
    max_concurrent_requests,  \* constructor argument
    proxies,                  \* constructor argument (<<>> is None)
    semaphore,                \* LinkedInClient._semaphore._value
    proxy_cycle,              \* position of the iterator _proxy_cycle in its pool
    tasks,                    \* page/detail coroutines, in creation order
    calls,                    \* public operations, in call order
    attempt_log,              \* proxies of the last LogWindow attempts, in start order
    scope,                    \* what a run covers: the calls and tasks it may be
                              \* given, and whether ended requests stay on record
    job_filter,               \* the JobFilter whose to_linkedin_params() is called
    params,                   \* what to_linkedin_params() returned (None: not yet)
    raw,                      \* the detail page handed to parse_job_details
    job_details               \* how parse_job_details(raw) ended (None: not yet)

\* what the conversions and parsers work on: they touch no client state
offline == <<job_filter, params, raw, job_details>>

vars == <<max_concurrent_requests, proxies, semaphore, proxy_cycle, tasks,
          calls, attempt_log, scope, offline>>

(* ---------------- pure helpers ---------------- *)
RECURSIVE Pow2(_)
Pow2(n) == IF n = 0 THEN 1 ELSE 2 * Pow2(n - 1)

\* math.ceil(a / b) for integers a and b > 0
CeilDiv(a, b) == -((-a) \div b)

\* cycle(proxies) if proxies else cycle([""])
ProxyPool == IF proxies # <<>> THEN proxies ELSE <<"">>

\* next(self._proxy_cycle): the entry at the position, which moves on by one
NextProxy(pos) == ProxyPool[pos + 1]
Advance(pos) == (pos + 1) % Len(ProxyPool)

\* the last LogWindow entries of s
Recent(s) == IF Len(s) <= LogWindow THEN s ELSE SubSeq(s, Len(s) - LogWindow + 1, Len(s))

\* Response.raise_for_status raises HTTPError iff not response.ok
RaisesForStatus(status) == ~(200 <= status /\ status < 400)

IsRequestsError(err) == err.type \in {"RequestsError", "HTTPError"}

\* retries once more than RETRY_COUNT allows
should_retry_one_more(err, retry) ==
    IF retry > RETRY_COUNT THEN FALSE
    ELSE IF ~IsRequestsError(err) THEN FALSE
    ELSE IF err.status = NoResponse THEN TRUE
    ELSE err.status = 429 \/ err.status >= 500

\* takes every HTTP error status for a transient one
should_retry_any_status(err, retry) ==
    IF retry >= RETRY_COUNT THEN FALSE
    ELSE IF ~IsRequestsError(err) THEN FALSE
    ELSE IF err.status = NoResponse THEN TRUE
    ELSE err.status >= 400

\* a failure without a response taken for final
should_retry_responses_only(err, retry) ==
    IF retry >= RETRY_COUNT THEN FALSE
    ELSE IF ~IsRequestsError(err) THEN FALSE
    ELSE IF err.status = NoResponse THEN FALSE
    ELSE err.status = 429 \/ err.status >= 500

should_retry_request(err, retry) ==
    IF retry >= RETRY_COUNT THEN FALSE
    ELSE IF ~IsRequestsError(err) THEN FALSE
    ELSE IF err.status = NoResponse THEN TRUE
    ELSE err.status = 429 \/ err.status >= 500

RECURSIVE Flatten(_)
Flatten(ss) == IF ss = <<>> THEN <<>> ELSE Head(ss) \o Flatten(Tail(ss))

\* jobs[:limit] for limit >= 0
Truncate(s, n) == IF Len(s) <= n THEN s ELSE SubSeq(s, 1, n)

\* parse_jobs on the body answered for start: the records at start, start+1, ...
ParsedJobs(start, n) == [j \in 1..n |-> start + j - 1]

\* parse_job_details on the body answered to request t for job id
ParsedDetails(id, t) == <<id, t>>

\* no transport outcome at hand
NoOutcome == [type |-> "", status |-> NoResponse]

\* a page or detail coroutine: retry is the loop variable of request(), seen
\* the outcome of its last transport call, response what request() returned,
\* delay the argument of the asyncio.sleep it is in, slept the sum of the
\* sleeps it has finished and attempts the transport calls it has made (the
\* last two kept of an ended request when on record)
NewTask(c, op, arg) ==
    [call |-> c, op |-> op, arg |-> arg, pc |-> "wait", retry |-> 0,
     seen |-> NoOutcome, response |-> NoResponse, error |-> NoError,
     result |-> <<>>, attempts |-> 0, delay |-> 0, slept |-> 0]

NewCall(op, offset, limit_arg, limit, ids, ts, status, error) ==
    [op |-> op, offset |-> offset, limit_arg |-> limit_arg, limit |-> limit,
     ids |-> ids, tasks |-> ts, status |-> status, result |-> <<>>,
     error |-> error, inverted |-> FALSE]

(* ---------------- initial state ---------------- *)
\* LinkedInClient(proxies=..., max_concurrent_requests=...)
Constructed ==
    /\ max_concurrent_requests \in 0..MaxN
    /\ proxies \in ProxyConfigs
    /\ semaphore = max_concurrent_requests
    /\ proxy_cycle = 0
    /\ tasks = <<>>
    /\ calls = <<>>
    /\ attempt_log = <<>>

\* no conversion or parse under way
Online ==
    /\ job_filter = DefaultFilter
    /\ params = None
    /\ raw = None
    /\ job_details = None

Init ==
    /\ Constructed /\ Online
    /\ scope = [calls |-> MaxCalls, tasks |-> MaxTasks, history |-> FALSE]
InitExec ==
    /\ Constructed /\ Online
    /\ scope = [calls |-> MaxRequests, tasks |-> MaxRequests, history |-> TRUE]
InitArgs ==
    /\ Constructed /\ Online
    /\ scope = [calls |-> MaxPlans, tasks |-> MaxPlanned, history |-> FALSE]

InitFew ==
    /\ Constructed /\ Online
    /\ scope = [calls |-> MaxLiveCalls, tasks |-> MaxLiveTasks, history |-> FALSE]

\* a client without proxies: the pool has no part in the scheduling
InitLive ==
    /\ Constructed /\ Online
    /\ proxies = <<>>
    /\ scope = [calls |-> MaxLiveCalls, tasks |-> MaxLiveTasks, history |-> FALSE]

\* a detail page received, not parsed yet
InitDetails ==
    /\ Constructed
    /\ scope = [calls |-> 0, tasks |-> 0, history |-> FALSE]
    /\ job_filter = DefaultFilter
    /\ params = None
    /\ raw \in DetailPages
    /\ job_details = None

\* a filter built, its parameters not asked for yet
InitParams ==
    /\ Constructed
    /\ scope = [calls |-> 0, tasks |-> 0, history |-> FALSE]
    /\ job_filter \in JobFilters
    /\ params = None
    /\ raw = None
    /\ job_details = None

(* ---------------- Resilient Request Executor ---------------- *)
\* every request rotates through the pool on its own
StartAttemptOwnCycle(t, retry) ==
    LET proxy == ProxyPool[(retry % Len(ProxyPool)) + 1]
    IN /\ proxy_cycle' = Advance(proxy_cycle)
       /\ attempt_log' = IF scope.history THEN Recent(Append(attempt_log, proxy))
                         ELSE attempt_log
       /\ tasks' = [tasks EXCEPT ![t].pc = "inflight", ![t].retry = retry,
                                 ![t].seen = NoOutcome, ![t].error = NoError,
                                 ![t].slept = @ + tasks[t].delay, ![t].delay = 0]

\* the top of the retry loop up to the awaited transport call:
\* proxy = next(self._proxy_cycle); if proxy: kwargs["proxy"] = proxy
\* (the client passes no proxy of its own, and configured proxy URLs are
\* not empty, so kwargs["proxy"] is the proxy drawn, or stays unset)
StartAttempt(t, retry) ==
    LET proxy == NextProxy(proxy_cycle)
    IN /\ proxy_cycle' = Advance(proxy_cycle)
       /\ attempt_log' = IF scope.history THEN Recent(Append(attempt_log, proxy))
                         ELSE attempt_log
       /\ tasks' = [tasks EXCEPT ![t].pc = "inflight", ![t].retry = retry,
                                 ![t].seen = NoOutcome, ![t].error = NoError,
                                 ![t].slept = @ + tasks[t].delay, ![t].delay = 0]

\* the error the try block of request() sees for a transport outcome
RaisedError(out) ==
    IF out.type = "response"
    THEN IF RaisesForStatus(out.status)
         THEN [type |-> "HTTPError", status |-> out.status]
         ELSE NoError
    ELSE [type |-> out.type, status |-> NoResponse]

\* the parse results to tell apart when task t gets out: the body is parsed
\* only when request() returns a response
ParseOutcomesOf(t, out) ==
    IF RaisedError(out) # NoError THEN {ParseFailure}
    ELSE IF tasks[t].op = "page" THEN ParseOutcomes ELSE DetailOutcomes

\* the value _fetch_jobs_page / _fetch_job_details returns for a parsed body
Parsed(t, parse) ==
    IF tasks[t].op = "page"
    THEN ParsedJobs(tasks[t].arg, parse.n)
    ELSE ParsedDetails(tasks[t].arg, t)

\* request() is left, by return or raise: its loop variable is gone
Left(tk) ==
    [tk EXCEPT !.retry = 0, !.attempts = IF scope.history THEN tk.retry + 1 ELSE 0,
               !.slept = IF scope.history THEN tk.slept ELSE 0]

\* a body that does not parse fetched again, like a transient failure
AfterTransportParseRetried(t, out, parse) ==
    LET err == RaisedError(out)
        tk == tasks[t]
        bad == [type |-> "ValueError", status |-> NoResponse]
    IN IF err = NoError
       THEN IF parse.ok
            THEN [Left(tk) EXCEPT !.pc = "done", !.response = out.status,
                                  !.result = Parsed(t, parse)]
            ELSE IF tk.retry < RETRY_COUNT
                 THEN [tk EXCEPT !.pc = "sleep", !.error = bad, !.delay = Pow2(tk.retry)]
                 ELSE [Left(tk) EXCEPT !.pc = "failed", !.error = bad]
       ELSE IF IsRequestsError(err) /\ should_retry_request(err, tk.retry)
            THEN [tk EXCEPT !.pc = "sleep", !.error = err, !.delay = Pow2(tk.retry)]
            ELSE [Left(tk) EXCEPT !.pc = "failed", !.error = err]

\* a backoff that grows by one unit per attempt
AfterTransportLinear(t, out, parse) ==
    LET err == RaisedError(out)
        tk == tasks[t]
    IN IF err = NoError
       THEN IF parse.ok
            THEN [Left(tk) EXCEPT !.pc = "done", !.response = out.status,
                                  !.result = Parsed(t, parse)]
            ELSE [Left(tk) EXCEPT !.pc = "failed",
                                  !.error = [type |-> "ValueError", status |-> NoResponse]]
       ELSE IF IsRequestsError(err) /\ should_retry_request(err, tk.retry)
            THEN [tk EXCEPT !.pc = "sleep", !.error = err, !.delay = tk.retry + 1]
            ELSE [Left(tk) EXCEPT !.pc = "failed", !.error = err]

\* the task as it is left when the awaited transport call ends with out:
\* the rest of request(), the exit of the semaphore block and the parse
AfterTransport(t, out, parse) ==
    LET err == RaisedError(out)
        tk == tasks[t]
    IN IF err = NoError
       THEN IF parse.ok
            THEN [Left(tk) EXCEPT !.pc = "done", !.response = out.status,
                                  !.result = Parsed(t, parse)]
            ELSE [Left(tk) EXCEPT !.pc = "failed",
                                  !.error = [type |-> "ValueError", status |-> NoResponse]]
       ELSE IF IsRequestsError(err) /\ should_retry_request(err, tk.retry)
            THEN [tk EXCEPT !.pc = "sleep", !.error = err, !.delay = Pow2(tk.retry)]
            ELSE [Left(tk) EXCEPT !.pc = "failed", !.error = err]

(* ---------------- Fetch Orchestrator ---------------- *)
TaskIds(c) == calls[c].tasks

\* results collected last task first
GatherReversed(ts) == [j \in 1..Len(ts) |-> tasks[ts[Len(ts) + 1 - j]].result]

\* asyncio.gather(*tasks): results in the order of the awaitables
Gather(ts) == [j \in 1..Len(ts) |-> tasks[ts[j]].result]

\* what the end of task t (now tk) means to the operation that issued it:
\* fetch_job_details awaits the coroutine itself and ends with it; gather
\* takes the first exception raised as the exception of the whole
\* (inverted notes that a task ended before an earlier task of its operation)
TaskEnded(t, tk) ==
    LET c == tk.call
    IN IF calls[c].op = "fetch_job_details"
       THEN [calls EXCEPT ![c].status = IF tk.pc = "done" THEN "returned" ELSE "failed",
                          ![c].result = tk.result,
                          ![c].error = tk.error.type]
       ELSE [calls EXCEPT ![c].error = IF @ = "" THEN tk.error.type ELSE @,
                          ![c].inverted = @ \/ \E u \in 1..(t - 1) :
                              tasks[u].call = c /\ tasks[u].pc \notin {"done", "failed"}]

\* an omitted limit taken for the whole query limit
EffectiveLimitWhole(offset, limit_arg) ==
    IF limit_arg = None THEN LINKEDIN_JOB_QUERY_LIMIT ELSE limit_arg[1]

\* if limit is None: limit = LINKEDIN_JOB_QUERY_LIMIT - offset
EffectiveLimit(offset, limit_arg) ==
    IF limit_arg = None THEN LINKEDIN_JOB_QUERY_LIMIT - offset ELSE limit_arg[1]

\* the check against the query limit left out
RejectedNoCeiling(offset, limit) == offset < 0 \/ limit < 0

\* the two checks that raise ValueError
Rejected(offset, limit) ==
    \/ offset < 0 \/ limit < 0
    \/ offset + limit > LINKEDIN_JOB_QUERY_LIMIT

\* the last, partial page forgotten
TotalPagesFloor(limit) == limit \div LINKEDIN_PAGE_SIZE

TotalPages(limit) == CeilDiv(limit, LINKEDIN_PAGE_SIZE)

\* the start parameter of page i, i counted from 0
PageStart(offset, i) == offset + i * LINKEDIN_PAGE_SIZE

FetchJobs(offset, limit_arg) ==
    /\ Len(calls) < scope.calls
    /\ LET limit == EffectiveLimit(offset, limit_arg)
           c == Len(calls) + 1
           total_pages == TotalPages(limit)
           first == Len(tasks)
       IN IF Rejected(offset, limit)
          THEN /\ calls' = Append(calls, NewCall("fetch_jobs", offset, limit_arg, limit,
                                                 <<>>, <<>>, "failed", "ValueError"))
               /\ UNCHANGED tasks
          ELSE /\ first + total_pages <= scope.tasks
               /\ tasks' = tasks \o [i \in 1..total_pages |->
                              NewTask(c, "page", PageStart(offset, i - 1))]
               /\ calls' = Append(calls, NewCall("fetch_jobs", offset, limit_arg, limit,
                                    <<>>, [i \in 1..total_pages |-> first + i],
                                    IF total_pages = 0 THEN "returned" ELSE "pending",
                                    ""))
    /\ UNCHANGED <<max_concurrent_requests, proxies, semaphore, proxy_cycle,
                   attempt_log, scope, offline>>

FetchJobDetails(id) ==
    /\ Len(calls) < scope.calls
    /\ Len(tasks) < scope.tasks
    /\ tasks' = Append(tasks, NewTask(Len(calls) + 1, "details", id))
    /\ calls' = Append(calls, NewCall("fetch_job_details", 0, None, 0, <<id>>,
                                      <<Len(tasks) + 1>>, "pending", ""))
    /\ UNCHANGED <<max_concurrent_requests, proxies, semaphore, proxy_cycle,
                   attempt_log, scope, offline>>

\* ids requested once each
RECURSIVE RequestedOnce(_)
RequestedOnce(ids) ==
    IF ids = <<>> THEN <<>>
    ELSE LET front == RequestedOnce(SubSeq(ids, 1, Len(ids) - 1))
             last == ids[Len(ids)]
         IN IF \E j \in 1..Len(front) : front[j] = last THEN front
            ELSE Append(front, last)

\* the ids a task is created for: every element of ids, in order
Requested(ids) == ids

FetchJobsDetails(ids) ==
    /\ Len(calls) < scope.calls
    /\ Len(tasks) + Len(Requested(ids)) <= scope.tasks
    /\ tasks' = tasks \o [j \in 1..Len(Requested(ids)) |->
                              NewTask(Len(calls) + 1, "details", Requested(ids)[j])]
    /\ calls' = Append(calls, NewCall("fetch_jobs_details", 0, None, 0, ids,
                                      [j \in 1..Len(Requested(ids)) |-> Len(tasks) + j],
                                      IF Requested(ids) = <<>> THEN "returned" ELSE "pending",
                                      ""))
    /\ UNCHANGED <<max_concurrent_requests, proxies, semaphore, proxy_cycle,
                   attempt_log, scope, offline>>

\* the request started without waiting for a free slot
AcquireUnguarded(t) ==
    /\ tasks[t].pc = "wait"
    /\ semaphore' = semaphore - 1
    /\ StartAttempt(t, 0)
    /\ UNCHANGED <<max_concurrent_requests, proxies, calls, scope, offline>>

\* the slot taken twice on the way in and given back once
AcquireTwice(t) ==
    /\ tasks[t].pc = "wait"
    /\ semaphore > 1
    /\ semaphore' = semaphore - 2
    /\ StartAttempt(t, 0)
    /\ UNCHANGED <<max_concurrent_requests, proxies, calls, scope, offline>>

\* async with self._semaphore: entered, and the first attempt started
Acquire(t) ==
    /\ tasks[t].pc = "wait"
    /\ semaphore > 0
    /\ semaphore' = semaphore - 1
    /\ StartAttempt(t, 0)
    /\ UNCHANGED <<max_concurrent_requests, proxies, calls, scope, offline>>

\* the slot given back only when the request returned a response
TransportDoneLeaky(t, out, parse) ==
    /\ tasks[t].pc = "inflight"
    /\ LET tk == AfterTransport(t, out, parse)
       IN /\ tasks' = [tasks EXCEPT ![t] = [tk EXCEPT !.seen = out]]
          /\ semaphore' = IF tk.pc = "sleep" \/ RaisedError(out) # NoError
                           THEN semaphore ELSE semaphore + 1
          /\ calls' = IF tk.pc = "sleep" THEN calls ELSE TaskEnded(t, tk)
    /\ UNCHANGED <<max_concurrent_requests, proxies, proxy_cycle, attempt_log, scope, offline>>

\* the slot given back for the time of the backoff sleep
TransportDoneFreeSleep(t, out, parse) ==
    /\ tasks[t].pc = "inflight"
    /\ LET tk == AfterTransport(t, out, parse)
       IN /\ tasks' = [tasks EXCEPT ![t] = [tk EXCEPT !.seen = out]]
          /\ semaphore' = semaphore + 1
          /\ calls' = IF tk.pc = "sleep" THEN calls ELSE TaskEnded(t, tk)
    /\ UNCHANGED <<max_concurrent_requests, proxies, proxy_cycle, attempt_log, scope, offline>>

\* the awaited transport call of task t ends
TransportDone(t, out, parse) ==
    /\ tasks[t].pc = "inflight"
    /\ LET tk == AfterTransport(t, out, parse)
       IN /\ tasks' = [tasks EXCEPT ![t] = [tk EXCEPT !.seen = out]]
          /\ semaphore' = IF tk.pc = "sleep" THEN semaphore ELSE semaphore + 1
          /\ calls' = IF tk.pc = "sleep" THEN calls ELSE TaskEnded(t, tk)
    /\ UNCHANGED <<max_concurrent_requests, proxies, proxy_cycle, attempt_log, scope, offline>>

\* await asyncio.sleep(2**retry) ends; continue with the next attempt
SleepDone(t) ==
    /\ tasks[t].pc = "sleep"
    /\ StartAttempt(t, tasks[t].retry + 1)
    /\ UNCHANGED <<max_concurrent_requests, proxies, semaphore, calls, scope, offline>>

\* gather that cancels the tasks still running when one has raised
GatherDoneCancelling(c) ==
    /\ calls[c].status = "pending"
    /\ calls[c].op # "fetch_job_details"
    /\ IF calls[c].error # ""
       THEN LET stopped == {t \in 1..Len(tasks) :
                               tasks[t].call = c /\ tasks[t].pc \notin {"done", "failed"}}
                held == {t \in stopped : tasks[t].pc \in {"inflight", "sleep"}}
            IN /\ calls' = [calls EXCEPT ![c].status = "failed"]
               /\ tasks' = [t \in 1..Len(tasks) |->
                               IF t \in stopped
                               THEN [tasks[t] EXCEPT !.pc = "failed", !.retry = 0, !.delay = 0,
                                       !.error = [type |-> "CancelledError",
                                                  status |-> NoResponse]]
                               ELSE tasks[t]]
               /\ semaphore' = semaphore + Cardinality(held)
       ELSE /\ \A j \in 1..Len(TaskIds(c)) : tasks[TaskIds(c)[j]].pc = "done"
            /\ calls' = [calls EXCEPT ![c].status = "returned",
                           ![c].result = IF calls[c].op = "fetch_jobs"
                                         THEN Truncate(Flatten(Gather(TaskIds(c))),
                                                       calls[c].limit)
                                         ELSE Gather(TaskIds(c))]
            /\ UNCHANGED <<tasks, semaphore>>
    /\ UNCHANGED <<max_concurrent_requests, proxies, proxy_cycle, attempt_log, scope, offline>>

\* gather that waits for every task and hands back what succeeded
GatherDoneTolerant(c) ==
    /\ calls[c].status = "pending"
    /\ calls[c].op # "fetch_job_details"
    /\ \A j \in 1..Len(TaskIds(c)) : tasks[TaskIds(c)[j]].pc \in {"done", "failed"}
    /\ calls' = [calls EXCEPT ![c].status = "returned",
                   ![c].result = IF calls[c].op = "fetch_jobs"
                                 THEN Truncate(Flatten(Gather(TaskIds(c))), calls[c].limit)
                                 ELSE Gather(TaskIds(c))]
    /\ UNCHANGED <<max_concurrent_requests, proxies, semaphore, proxy_cycle,
                   tasks, attempt_log, scope, offline>>

\* await asyncio.gather(*tasks) resumes fetch_jobs / fetch_jobs_details
GatherDone(c) ==
    /\ calls[c].status = "pending"
    /\ calls[c].op # "fetch_job_details"
    /\ IF calls[c].error # ""
       THEN calls' = [calls EXCEPT ![c].status = "failed"]
       ELSE /\ \A j \in 1..Len(TaskIds(c)) : tasks[TaskIds(c)[j]].pc = "done"
            /\ calls' = [calls EXCEPT ![c].status = "returned",
                           ![c].result = IF calls[c].op = "fetch_jobs"
                                         THEN Truncate(Flatten(Gather(TaskIds(c))),
                                                       calls[c].limit)
                                         ELSE Gather(TaskIds(c))]
    /\ UNCHANGED <<max_concurrent_requests, proxies, semaphore, proxy_cycle,
                   tasks, attempt_log, scope, offline>>

(* ---------------- JobFilter ---------------- *)
\* str(i.value) of an enum member
StrOfValue(i) == IF i.int THEN ToString(i.n) ELSE i.s

\* ",".join(str(i.value) for i in sequence)
RECURSIVE JoinEnumValues(_)
JoinEnumValues(sequence) ==
    IF sequence = <<>> THEN ""
    ELSE IF Len(sequence) = 1 THEN StrOfValue(sequence[1])
    ELSE StrOfValue(sequence[1]) \o "," \o JoinEnumValues(Tail(sequence))

\* int(x) of a float given in thousandths: truncation towards zero
IntOfThousandths(ms) == IF ms >= 0 THEN ms \div 1000 ELSE -((-ms) \div 1000)

\* params[key] = value on a dict
Put(d, key, value) ==
    [k \in (DOMAIN d) \cup {key} |-> IF k = key THEN value ELSE d[k]]
EmptyDict == [k \in {} |-> ""]

\* a sequence filter given when it is not empty only
to_linkedin_params_truthy(f) ==
    LET p1 == IF f.title # None THEN Put(EmptyDict, "keywords", f.title[1]) ELSE EmptyDict
        p2 == Put(p1, "location", f.location)
        p3 == IF f.employment_types # None /\ f.employment_types[1] # <<>>
              THEN Put(p2, "f_JT", JoinEnumValues(f.employment_types[1]))
              ELSE p2
        p4 == IF f.experience_levels # None /\ f.experience_levels[1] # <<>>
              THEN Put(p3, "f_E", JoinEnumValues(f.experience_levels[1]))
              ELSE p3
        p5 == IF f.work_modes # None /\ f.work_modes[1] # <<>>
              THEN Put(p4, "f_WT", JoinEnumValues(f.work_modes[1]))
              ELSE p4
        p6 == IF f.few_applicants = <<TRUE>> THEN Put(p5, "f_JIYN", "true") ELSE p5
    IN IF f.age # None
       THEN Put(p6, "f_TPR", "r" \o ToString(IntOfThousandths(f.age[1])))
       ELSE p6

to_linkedin_params(f) ==
    LET p1 == IF f.title # None THEN Put(EmptyDict, "keywords", f.title[1]) ELSE EmptyDict
        p2 == Put(p1, "location", f.location)
        p3 == IF f.employment_types # None
              THEN Put(p2, "f_JT", JoinEnumValues(f.employment_types[1]))
              ELSE p2
        p4 == IF f.experience_levels # None
              THEN Put(p3, "f_E", JoinEnumValues(f.experience_levels[1]))
              ELSE p3
        p5 == IF f.work_modes # None
              THEN Put(p4, "f_WT", JoinEnumValues(f.work_modes[1]))
              ELSE p4
        p6 == IF f.few_applicants = <<TRUE>> THEN Put(p5, "f_JIYN", "true") ELSE p5
    IN IF f.age # None
       THEN Put(p6, "f_TPR", "r" \o ToString(IntOfThousandths(f.age[1])))
       ELSE p6

\* job_filter.to_linkedin_params() is called
ToLinkedinParams ==
    /\ params = None
    /\ params' = <<to_linkedin_params(job_filter)>>
    /\ UNCHANGED <<max_concurrent_requests, proxies, semaphore, proxy_cycle, tasks,
                   calls, attempt_log, scope, job_filter, raw, job_details>>

(* ---------------- parsing ---------------- *)
STR_TO_EXPERIENCE_LEVEL_MAP ==
    "Internship" :> 1 @@ "Entry level" :> 2 @@ "Associate" :> 3
    @@ "Mid-Senior level" :> 4 @@ "Director" :> 5 @@ "Executive" :> 6

STR_TO_EMPLOYMENT_TYPE_MAP ==
    "Full-time" :> "F" @@ "Part-time" :> "P" @@ "Contract" :> "C"
    @@ "Temporary" :> "T" @@ "Internship" :> "I" @@ "Other" :> "O"

\* dict.get(key): None when the key is not there
Get(d, key) == IF key \in DOMAIN d THEN <<d[key]>> ELSE None

\* str.strip() on a text: the blanks at both ends dropped
RECURSIVE StripLeft(_)
StripLeft(text) ==
    IF text # <<>> /\ Head(text) = Word(" ") THEN StripLeft(Tail(text)) ELSE text
RECURSIVE StripRight(_)
StripRight(text) ==
    IF text # <<>> /\ text[Len(text)] = Word(" ")
    THEN StripRight(SubSeq(text, 1, Len(text) - 1)) ELSE text
Strip(text) == StripRight(StripLeft(text))

\* re.search(r"(\d+)", text): the first run of digits, None without any
RECURSIVE SearchDigits(_)
SearchDigits(text) ==
    IF text = <<>> THEN None
    ELSE IF Head(text).digits THEN <<Head(text).n>>
    ELSE SearchDigits(Tail(text))

Raised(message) == [error |-> message, details |-> None]

\* for item in criterias: ... , from the values the two variables hold
RECURSIVE CriteriaLoop(_, _, _)
CriteriaLoop(items, employment_type, experience_level) ==
    IF items = <<>>
    THEN [error |-> "", employment_type |-> employment_type,
          experience_level |-> experience_level]
    ELSE LET item == Head(items)
         IN IF item.key = None \/ item.value = None
            THEN [error |-> "Could not parse employment type or experience level",
                  employment_type |-> None, experience_level |-> None]
            ELSE CriteriaLoop(Tail(items),
                    IF item.key[1] = "Employment type"
                    THEN Get(STR_TO_EMPLOYMENT_TYPE_MAP, item.value[1])
                    ELSE employment_type,
                    IF item.key[1] = "Seniority level"
                    THEN Get(STR_TO_EXPERIENCE_LEVEL_MAP, item.value[1])
                    ELSE experience_level)

parse_job_details(page) ==
    IF page.description = None THEN Raised("Could not find job description")
    ELSE IF Strip(page.description[1]) = <<>>
    THEN Raised("Could not parse job description")
    ELSE LET found == CriteriaLoop(page.criterias, None, None)
         IN IF found.error # "" THEN Raised(found.error)
            ELSE IF found.employment_type = None
            THEN Raised("Could not parse employment type")
            ELSE IF page.num_applicants = None
            THEN Raised("Could not find applicant count")
            ELSE IF SearchDigits(page.num_applicants[1]) = None
            THEN Raised("Could not parse applicant count")
            ELSE [error |-> "",
                  details |-> <<[description |-> Strip(page.description[1]),
                                 employment_type |-> found.employment_type[1],
                                 experience_level |-> found.experience_level,
                                 applicant_count |->
                                     SearchDigits(page.num_applicants[1])[1]]>>]

\* parse_job_details(raw) is called
ParseJobDetails ==
    /\ raw # None
    /\ job_details = None
    /\ job_details' = <<parse_job_details(raw)>>
    /\ UNCHANGED <<max_concurrent_requests, proxies, semaphore, proxy_cycle, tasks,
                   calls, attempt_log, scope, job_filter, params, raw>>

\* overlapping operations of one client
Next ==
    \/ \E args \in JobsArgs : FetchJobs(args[1], args[2])
    \/ \E id \in Ids : FetchJobDetails(id)
    \/ \E ids \in IdLists : FetchJobsDetails(ids)
    \/ \E t \in 1..Len(tasks) : Acquire(t)
    \/ \E t \in 1..Len(tasks), out \in TypicalOutcomes :
          \E parse \in ParseOutcomesOf(t, out) : TransportDone(t, out, parse)
    \/ \E t \in 1..Len(tasks) : SleepDone(t)
    \/ \E c \in 1..Len(calls) : GatherDone(c)

Spec == Init /\ [][Next]_vars

\* concurrent requests of one session, under every outcome of the transport
NextExec ==
    \/ \E id \in Ids : FetchJobDetails(id)
    \/ \E t \in 1..Len(tasks) : Acquire(t)
    \/ \E t \in 1..Len(tasks), out \in TransportOutcomes :
          \E parse \in ParseOutcomesOf(t, out) : TransportDone(t, out, parse)
    \/ \E t \in 1..Len(tasks) : SleepDone(t)

SpecExec == InitExec /\ [][NextExec]_vars

\* fetch_jobs over the arguments around the boundaries of its validation
NextArgs == \E offset \in WideOffsets, limit \in WideLimits : FetchJobs(offset, limit)

SpecArgs == InitArgs /\ [][NextArgs]_vars

\* one operation of a client and the tasks it issues
NextLive ==
    \/ \E args \in LiveJobsArgs : FetchJobs(args[1], args[2])
    \/ \E id \in Ids : FetchJobDetails(id)
    \/ \E ids \in LiveIdLists : FetchJobsDetails(ids)
    \/ \E t \in 1..Len(tasks) : Acquire(t)
    \/ \E t \in 1..Len(tasks), out \in TypicalOutcomes :
          \E parse \in ParseOutcomesOf(t, out) : TransportDone(t, out, parse)
    \/ \E t \in 1..Len(tasks) : SleepDone(t)
    \/ \E c \in 1..Len(calls) : GatherDone(c)

SpecFew == InitFew /\ [][NextLive]_vars

\* the event loop runs every coroutine that is ready: a transport call and a
\* sleep end, a woken gather resumes, and asyncio.Semaphore wakes its
\* waiters in the order they came, so a waiting task is not passed over
\* for ever
Scheduling ==
    /\ \A t \in 1..MaxLiveTasks :
          /\ SF_vars(t <= Len(tasks) /\ Acquire(t))
          /\ WF_vars(t <= Len(tasks) /\ \E out \in TypicalOutcomes :
                        \E parse \in ParseOutcomesOf(t, out) : TransportDone(t, out, parse))
          /\ WF_vars(t <= Len(tasks) /\ SleepDone(t))
    /\ \A c \in 1..MaxLiveCalls : WF_vars(c <= Len(calls) /\ GatherDone(c))

SpecLive == InitLive /\ [][NextLive]_vars /\ Scheduling

\* to_linkedin_params over the filters
NextParams == ToLinkedinParams

SpecParams == InitParams /\ [][NextParams]_vars

\* parse_job_details over the detail pages
NextDetails == ParseJobDetails

SpecDetails == InitDetails /\ [][NextDetails]_vars

(* ======================= properties ======================= *)
TaskSet == 1..Len(tasks)
CallSet == 1..Len(calls)
Ended(t) == tasks[t].pc \in {"done", "failed"}
InFlight == {t \in TaskSet : tasks[t].pc = "inflight"}

\* a task that has ended is never touched again
EndedForGood == \A t \in TaskSet : Ended(t) => tasks'[t] = tasks[t]

\* C1: the number of transport calls in flight never exceeds
\* max_concurrent_requests, whatever operations and tasks are outstanding
C1_ConcurrencyCeiling == Cardinality(InFlight) <= max_concurrent_requests

C1_Witness ==
    /\ max_concurrent_requests >= 1
    /\ Cardinality(InFlight) = max_concurrent_requests
    /\ \E t \in InFlight, u \in TaskSet :
          tasks[u].pc = "wait" /\ tasks[t].op # tasks[u].op

\* C2: a request makes at most RETRY_COUNT + 1 attempts; a 2xx response ends
\* it at once with that response and no later attempt; a retryable failure of
\* the last attempt is raised with that attempt's status (or no response)
C2_RetryableOutcome(out) ==
    \/ out.type = "RequestsError"
    \/ out.type = "response" /\ (out.status = 429 \/ out.status >= 500)

C2_Bounded ==
    \A t \in TaskSet :
        /\ tasks[t].retry <= RETRY_COUNT
        /\ (tasks[t].seen.type = "response" /\ tasks[t].seen.status \in 200..299)
              => /\ Ended(t)
                 /\ tasks[t].pc = "done" => tasks[t].response = tasks[t].seen.status
                 /\ tasks[t].pc = "failed" => tasks[t].error.type = "ValueError"
        /\ tasks[t].attempts <= RETRY_COUNT + 1
        /\ tasks[t].pc = "sleep"
              => tasks[t].retry < RETRY_COUNT /\ C2_RetryableOutcome(tasks[t].seen)
        /\ (tasks[t].pc # "sleep" /\ C2_RetryableOutcome(tasks[t].seen))
              => /\ tasks[t].pc = "failed"
                 /\ tasks[t].attempts = RETRY_COUNT + 1
                 /\ IsRequestsError(tasks[t].error)
                 /\ tasks[t].error.status = tasks[t].seen.status

C2_AtMostFourAttempts == [](C2_Bounded) /\ [][EndedForGood]_vars

C2_Witness ==
    \E t \in TaskSet, u \in TaskSet :
        /\ tasks[t].pc = "done" /\ tasks[t].attempts = RETRY_COUNT + 1
        /\ tasks[t].response = 200
        /\ tasks[u].pc = "failed" /\ tasks[u].attempts = RETRY_COUNT + 1
        /\ tasks[u].error.status = 503

C3_ClientErrorRaised ==
    \A t \in TaskSet :
        LET out == tasks[t].seen
        IN (out.type = "response" /\ out.status \notin 200..299
                /\ out.status # 429 /\ out.status < 500)
           => /\ Ended(t)
              /\ out.status \in 400..499
                    => /\ tasks[t].pc = "failed"
                       /\ tasks[t].error = [type |-> "HTTPError", status |-> out.status]

C4_Invalid(c) ==
    IF c.limit_arg = None
    THEN c.offset < 0 \/ c.offset > LINKEDIN_JOB_QUERY_LIMIT
    ELSE \/ c.offset < 0 \/ c.limit_arg[1] < 0
         \/ c.offset + c.limit_arg[1] > LINKEDIN_JOB_QUERY_LIMIT

C4_ValidationBeforeNetwork ==
    [][\A c \in 1..Len(calls') :
          (c > Len(calls) /\ calls'[c].op = "fetch_jobs" /\ C4_Invalid(calls'[c]))
          => /\ calls'[c].status = "failed"
             /\ calls'[c].error = "ValueError"
             /\ calls'[c].tasks = <<>>
             /\ tasks' = tasks
             /\ semaphore' = semaphore
             /\ proxy_cycle' = proxy_cycle
             /\ attempt_log' = attempt_log]_vars

C4_Witness ==
    \E c \in CallSet, d \in CallSet :
        /\ calls[c].limit_arg = None /\ calls[c].offset > LINKEDIN_JOB_QUERY_LIMIT
        /\ calls[c].status = "failed"
        /\ calls[d].limit_arg # None /\ calls[d].offset >= 0 /\ calls[d].limit_arg[1] >= 0
        /\ calls[d].offset + calls[d].limit_arg[1] > LINKEDIN_JOB_QUERY_LIMIT
        /\ calls[d].status = "failed"

\* C5: the attempts of all requests of a session, in the order they start,
\* draw the proxies in round-robin order from one shared position: the k-th
\* attempt gets proxies[k mod n], none skipped, none handed out twice in a round
C5_RoundRobin ==
    LET n == Len(ProxyPool)
        len == Len(attempt_log)
    IN /\ len < LogWindow => proxy_cycle = len % n
       /\ \A i \in 1..len :
             attempt_log[i] = ProxyPool[((proxy_cycle + n * LogWindow - 1 - (len - i)) % n) + 1]

C5_Witness ==
    /\ attempt_log = <<"A", "B", "C", "A">>
    /\ \E t \in TaskSet, u \in TaskSet :
          /\ t # u
          /\ tasks[t].pc = "inflight" /\ tasks[t].retry = 1
          /\ tasks[u].pc = "inflight" /\ tasks[u].retry = 1

\* C6: a valid fetch_jobs whose pages all succeed with LINKEDIN_PAGE_SIZE
\* records returns exactly limit records: those at offset, offset + 1, ...
\* in this order, in whatever order the page requests completed
C6_FullPages(c) ==
    \A j \in 1..Len(calls[c].tasks) :
        Len(tasks[calls[c].tasks[j]].result) = LINKEDIN_PAGE_SIZE

C6_OrderedExactlyLimit ==
    \A c \in CallSet :
        (calls[c].op = "fetch_jobs" /\ calls[c].status = "returned" /\ C6_FullPages(c))
        => calls[c].result = [i \in 1..calls[c].limit |-> calls[c].offset + i - 1]

C6_Witness ==
    \E c \in CallSet :
        /\ calls[c].op = "fetch_jobs" /\ calls[c].status = "returned"
        /\ C6_FullPages(c) /\ calls[c].inverted
        /\ calls[c].limit = 11 /\ Len(calls[c].result) = 11

\* C7: a valid fetch_jobs creates exactly ceil(limit / 10) page requests, the
\* i-th (from 0) with start = offset + i * 10; limit = 0 creates none and
\* returns the empty list
C7_PagePlan ==
    \A c \in CallSet :
        (calls[c].op = "fetch_jobs" /\ calls[c].offset >= 0 /\ calls[c].limit >= 0
            /\ calls[c].offset + calls[c].limit <= LINKEDIN_JOB_QUERY_LIMIT)
        => LET ts == calls[c].tasks
               n == Len(ts)
           IN /\ n * LINKEDIN_PAGE_SIZE >= calls[c].limit
              /\ (n - 1) * LINKEDIN_PAGE_SIZE < calls[c].limit
              /\ \A i \in 1..n :
                    /\ tasks[ts[i]].op = "page"
                    /\ tasks[ts[i]].call = c
                    /\ tasks[ts[i]].arg = calls[c].offset + (i - 1) * LINKEDIN_PAGE_SIZE
              /\ \A t \in TaskSet : tasks[t].call = c => \E i \in 1..n : ts[i] = t
              /\ calls[c].limit = 0 => (calls[c].status = "returned" /\ calls[c].result = <<>>)

C7_Witness ==
    \E c \in CallSet :
        /\ calls[c].op = "fetch_jobs" /\ calls[c].limit = 25
        /\ Len(calls[c].tasks) = 3
        /\ tasks[calls[c].tasks[3]].arg = calls[c].offset + 20

\* C8: fetch_jobs and fetch_jobs_details never return when one of their
\* page/detail tasks failed: a returned list is made of the results of all
\* the tasks, none left out
C8_NoPartialSuccess ==
    \A c \in CallSet :
        LET ts == calls[c].tasks
        IN /\ (\E j \in 1..Len(ts) : tasks[ts[j]].pc = "failed")
                 => calls[c].status # "returned" /\ calls[c].error # ""
           /\ calls[c].status = "returned"
                 => /\ \A j \in 1..Len(ts) : tasks[ts[j]].pc = "done"
                    /\ calls[c].op = "fetch_jobs"
                          => Len(ts) * LINKEDIN_PAGE_SIZE >= calls[c].limit
                    /\ calls[c].op = "fetch_jobs_details"
                          => Len(ts) = Len(calls[c].ids) /\ Len(calls[c].result) = Len(ts)

C8_Witness ==
    \E c \in CallSet :
        /\ calls[c].op \in {"fetch_jobs", "fetch_jobs_details"}
        /\ calls[c].status = "failed"
        /\ \E j \in 1..Len(calls[c].tasks), k \in 1..Len(calls[c].tasks) :
              /\ tasks[calls[c].tasks[j]].pc = "failed"
              /\ tasks[calls[c].tasks[k]].pc = "done"

\* C9: when every id succeeds, fetch_jobs_details(ids) returns one element
\* per element of ids, the j-th parsed from the response to the request made
\* for ids[j], in whatever order the requests completed, duplicates included
C9_OneToOne ==
    \A c \in CallSet :
        (calls[c].op = "fetch_jobs_details" /\ calls[c].status = "returned")
        => /\ Len(calls[c].result) = Len(calls[c].ids)
           /\ Len(calls[c].tasks) = Len(calls[c].ids)
           /\ \A j \in 1..Len(calls[c].ids) :
                 /\ tasks[calls[c].tasks[j]].arg = calls[c].ids[j]
                 /\ calls[c].result[j] = <<calls[c].ids[j], calls[c].tasks[j]>>

C9_Witness ==
    \E c \in CallSet :
        /\ calls[c].op = "fetch_jobs_details" /\ calls[c].status = "returned"
        /\ calls[c].inverted
        /\ Len(calls[c].ids) = 2 /\ calls[c].ids[1] = calls[c].ids[2]
        /\ Len(calls[c].result) = 2

\* C10: with limit omitted and offset in 0..1000, fetch_jobs works with the
\* limit 1000 - offset and creates ceil((1000 - offset) / 10) page requests
C10_OmittedLimit ==
    \A c \in CallSet :
        (calls[c].op = "fetch_jobs" /\ calls[c].limit_arg = None
            /\ calls[c].offset \in 0..LINKEDIN_JOB_QUERY_LIMIT)
        => LET rest == LINKEDIN_JOB_QUERY_LIMIT - calls[c].offset
               n == Len(calls[c].tasks)
           IN /\ calls[c].limit = rest
              /\ calls[c].status # "failed"
              /\ n * LINKEDIN_PAGE_SIZE >= rest
              /\ (n - 1) * LINKEDIN_PAGE_SIZE < rest

C10_Witness ==
    \E c \in CallSet :
        /\ calls[c].op = "fetch_jobs" /\ calls[c].limit_arg = None
        /\ calls[c].offset = 985 /\ calls[c].limit = 15
        /\ Len(calls[c].tasks) = 2

\* the tasks inside the semaphore block: in a transport call or a backoff sleep
Holding == {t \in TaskSet : tasks[t].pc \in {"inflight", "sleep"}}

\* C11: every acquire is matched by exactly one release, on return and on
\* every raise: the free permits are max_concurrent_requests minus the tasks
\* inside the block, never below 0 nor above max_concurrent_requests, and
\* max_concurrent_requests again once every issued task has ended
C11_NeverLeaked ==
    /\ semaphore \in 0..max_concurrent_requests
    /\ semaphore = max_concurrent_requests - Cardinality(Holding)
    /\ (\A t \in TaskSet : Ended(t)) => semaphore = max_concurrent_requests

C11_Witness ==
    /\ max_concurrent_requests = 1
    /\ semaphore = max_concurrent_requests
    /\ \E t \in TaskSet, u \in TaskSet :
          /\ tasks[t].pc = "failed" /\ tasks[t].error.type = "Exception"
          /\ tasks[u].pc = "failed" /\ tasks[u].error.type = "HTTPError"
          /\ tasks[u].attempts = RETRY_COUNT + 1

\* C12 as stated: a response with a status outside 2xx is never returned by
\* request(): it is retried (backoff sleep) or raised as an HTTP error
C12_AsStated ==
    \A t \in TaskSet :
        (tasks[t].seen.type = "response" /\ tasks[t].seen.status \notin 200..299)
        => \/ tasks[t].pc = "sleep"
           \/ tasks[t].pc = "failed" /\ tasks[t].error.type = "HTTPError"

\* C13 as stated: every optional field that is not None, few_applicants =
\* False and empty sequences included, gives its parameter key; a field that
\* is None gives none; location is always there
C13_Keys(d, f) ==
    /\ "location" \in DOMAIN d /\ d["location"] = f.location
    /\ ("keywords" \in DOMAIN d) <=> (f.title # None)
    /\ ("f_JT" \in DOMAIN d) <=> (f.employment_types # None)
    /\ ("f_E" \in DOMAIN d) <=> (f.experience_levels # None)
    /\ ("f_WT" \in DOMAIN d) <=> (f.work_modes # None)
    /\ ("f_TPR" \in DOMAIN d) <=> (f.age # None)
    /\ DOMAIN d \subseteq {"location", "keywords", "f_JT", "f_E", "f_WT", "f_JIYN", "f_TPR"}

C13_AsStated ==
    params # None
    => /\ C13_Keys(params[1], job_filter)
       /\ ("f_JIYN" \in DOMAIN params[1]) <=> (job_filter.few_applicants # None)

\* C13 (amended): as stated, but few_applicants gives the key f_JIYN only
\* when it is True; few_applicants = False gives no key, like None
C13_Unambiguous ==
    params # None
    => /\ C13_Keys(params[1], job_filter)
       /\ ("f_JIYN" \in DOMAIN params[1]) <=> (job_filter.few_applicants = <<TRUE>>)

C13_Witness ==
    /\ params # None
    /\ job_filter.few_applicants = <<FALSE>>
    /\ job_filter.employment_types = << <<>> >>
    /\ job_filter.work_modes = None
    /\ DOMAIN params[1] = {"keywords", "location", "f_JT", "f_E", "f_TPR"}
    /\ params[1]["f_JT"] = "" /\ params[1]["f_E"] = "2,4" /\ params[1]["f_TPR"] = "r1"

\* the index of the last attempt of task t that has ended
C14_Index(t) == IF Ended(t) THEN tasks[t].attempts - 1 ELSE tasks[t].retry

\* C14 as stated: a retryable failure on each of the attempts 0..3 is
\* followed by a sleep of 2^k: 1, 2, 4, 8
C14_AsStated ==
    \A t \in TaskSet :
        (C2_RetryableOutcome(tasks[t].seen) /\ C14_Index(t) \in 0..3)
        => tasks[t].pc = "sleep" /\ tasks[t].delay = <<1, 2, 4, 8>>[C14_Index(t) + 1]

\* C14 (amended): a retryable failure on attempt k = 0, 1, 2 is followed by
\* a sleep of 2^k = 1, 2, 4 before attempt k + 1 starts, so attempt k starts
\* after sleeps of 2^k - 1 in total (7 before attempt 3); no sleep follows a
\* success, a non-retryable error or attempt 3, and no sleep of 8 ever occurs
C14_Backoff ==
    \A t \in TaskSet :
        LET tk == tasks[t]
        IN /\ tk.pc = "sleep"
                 => /\ tk.retry \in 0..2 /\ C2_RetryableOutcome(tk.seen)
                    /\ tk.delay = <<1, 2, 4>>[tk.retry + 1]
           /\ tk.pc # "sleep" => tk.delay = 0
           /\ (C2_RetryableOutcome(tk.seen) /\ C14_Index(t) < 3) => tk.pc = "sleep"
           /\ tk.pc \in {"inflight", "sleep", "done", "failed"}
                 => tk.slept = <<0, 1, 3, 7>>[C14_Index(t) + 1]

C14_Witness ==
    \E t \in TaskSet, u \in TaskSet :
        /\ tasks[t].pc = "done" /\ tasks[t].attempts = 4 /\ tasks[t].slept = 7
        /\ tasks[u].pc = "failed" /\ tasks[u].seen.status = 503
        /\ tasks[u].attempts = 4 /\ tasks[u].slept = 7

C15_OverloadedStatus(out) ==
    out.type = "response" /\ (out.status = 429 \/ out.status >= 500)

\* C15 as stated: a failure without a response, whatever exception the
\* transport raised for it, and a response with status 429 or >= 500 lead to
\* another attempt while fewer than 4 attempts have been made
C15_AsStated ==
    \A t \in TaskSet :
        LET out == tasks[t].seen
        IN ((out.type \in {"RequestsError", "Exception"} \/ C15_OverloadedStatus(out))
                /\ C14_Index(t) < RETRY_COUNT)
           => tasks[t].pc = "sleep"

\* C15 (amended): a failure without a response raised as a RequestsError and
\* a response with status 429 or >= 500 lead to another attempt while fewer
\* than 4 attempts have been made, both in the same way: the sleep depends on
\* the attempt index only and the next attempt takes the next proxy; an
\* exception of another kind leaves request() at once, not retried
C15_Classified ==
    \A t \in TaskSet :
        LET out == tasks[t].seen
        IN /\ ((out.type = "RequestsError" \/ C15_OverloadedStatus(out))
                   /\ C14_Index(t) < RETRY_COUNT)
              => /\ tasks[t].pc = "sleep"
                 /\ tasks[t].delay = <<1, 2, 4>>[tasks[t].retry + 1]
           /\ out.type = "Exception"
              => /\ tasks[t].pc = "failed"
                 /\ tasks[t].error = [type |-> "Exception", status |-> NoResponse]

C15_NextAttempt ==
    \A t \in TaskSet :
        (tasks[t].pc = "sleep" /\ tasks'[t] # tasks[t])
        => /\ tasks'[t].pc = "inflight"
           /\ tasks'[t].retry = tasks[t].retry + 1
           /\ proxy_cycle' = (proxy_cycle + 1) % Len(ProxyPool)

C15_RetriedAlike == [](C15_Classified) /\ [][C15_NextAttempt]_vars

C15_Witness ==
    \E t \in TaskSet, u \in TaskSet :
        /\ tasks[t].pc = "sleep" /\ tasks[t].seen.type = "RequestsError"
        /\ tasks[u].pc = "sleep" /\ tasks[u].seen.status = 429
        /\ tasks[t].retry = 2 /\ tasks[u].retry = 2
        /\ tasks[t].delay = 4 /\ tasks[u].delay = 4

\* C16: a body is parsed only of a response request() returned, with the
\* slot given back in the same step; a parse failure ends the task: no
\* later attempt, no proxy drawn and no slot taken for it again
C16_ParseFailed(tk) == tk.error.type = "ValueError"

C16_AfterReturn ==
    \A t \in TaskSet :
        C16_ParseFailed(tasks[t])
        => /\ tasks[t].pc = "failed"
           /\ tasks[t].seen.type = "response" /\ tasks[t].seen.status \in 200..399
           /\ t \notin Holding

C16_FailureStep ==
    \A t \in TaskSet :
        /\ (~C16_ParseFailed(tasks[t]) /\ C16_ParseFailed(tasks'[t]))
              => /\ tasks[t].pc = "inflight"
                 /\ semaphore' = semaphore + 1
                 /\ proxy_cycle' = proxy_cycle
        /\ C16_ParseFailed(tasks[t]) => tasks'[t] = tasks[t]

C16_NeverRetried == [](C16_AfterReturn) /\ [][C16_FailureStep]_vars

C16_Witness ==
    /\ semaphore = max_concurrent_requests
    /\ proxies # <<>>
    /\ \E t \in TaskSet, u \in TaskSet :
          /\ tasks[t].op = "page" /\ C16_ParseFailed(tasks[t])
          /\ tasks[u].op = "page" /\ tasks[u].pc = "done"
          /\ calls[tasks[t].call].status = "failed"

\* the tasks still running of an operation that has already failed
C17_Orphans ==
    {t \in TaskSet : calls[tasks[t].call].status = "failed" /\ ~Ended(t)}

\* C17: the failure of fetch_jobs / fetch_jobs_details stops none of its
\* tasks: the step that fails the operation touches no task, slot or proxy
\* position, and a task of a failed operation goes on like any other: it
\* waits for a slot and takes it, holds it while in a transport call or a
\* sleep, draws the next proxy for every attempt, makes no more than 4
\* attempts and gives the slot back when it ends
C17_StillCounted ==
    /\ Cardinality({t \in C17_Orphans : tasks[t].pc \in {"inflight", "sleep"}})
          <= max_concurrent_requests - semaphore
    /\ \A t \in C17_Orphans : tasks[t].retry <= RETRY_COUNT

C17_GoesOn ==
    /\ \A c \in CallSet :
          (/\ calls[c].op \in {"fetch_jobs", "fetch_jobs_details"}
           /\ calls[c].status = "pending" /\ calls'[c].status = "failed")
          => /\ tasks' = tasks
             /\ semaphore' = semaphore
             /\ proxy_cycle' = proxy_cycle
    /\ \A t \in C17_Orphans :
          tasks'[t] # tasks[t]
          => \/ /\ tasks[t].pc = "wait" /\ tasks'[t].pc = "inflight"
                /\ semaphore > 0 /\ semaphore' = semaphore - 1
                /\ proxy_cycle' = (proxy_cycle + 1) % Len(ProxyPool)
             \/ /\ tasks[t].pc = "sleep" /\ tasks'[t].pc = "inflight"
                /\ tasks'[t].retry = tasks[t].retry + 1
                /\ semaphore' = semaphore
                /\ proxy_cycle' = (proxy_cycle + 1) % Len(ProxyPool)
             \/ /\ tasks[t].pc = "inflight" /\ tasks'[t].pc = "sleep"
                /\ semaphore' = semaphore
             \/ /\ tasks[t].pc = "inflight" /\ tasks'[t].pc \in {"done", "failed"}
                /\ tasks'[t].seen.type = "response"
                /\ semaphore' = semaphore + 1

C17_SiblingsNotStopped == [](C17_StillCounted) /\ [][C17_GoesOn]_vars

C17_Witness ==
    \E t \in TaskSet, u \in TaskSet :
        /\ tasks[t].call = tasks[u].call
        /\ calls[tasks[t].call].status = "failed"
        /\ tasks[t].pc = "failed"
        /\ tasks[u].pc = "inflight" /\ tasks[u].retry = RETRY_COUNT
        /\ semaphore < max_concurrent_requests

\* the items of page whose key and mapped value the parser looks for
C18_Mapped(page, key, map) ==
    {i \in 1..Len(page.criterias) :
        /\ page.criterias[i].key = <<key>>
        /\ page.criterias[i].value # None
        /\ page.criterias[i].value[1] \in DOMAIN map}

\* the pages the claim is about: the items are well formed and the
\* description is found, so that the items are looked at
C18_WellFormed(page) ==
    /\ page.description # None /\ page.description[1] # <<Word(" ")>>
    /\ \A i \in 1..Len(page.criterias) :
          page.criterias[i].key # None /\ page.criterias[i].value # None

\* C18 as stated: over well-formed items, the parse fails on the employment
\* type exactly when no 'Employment type' item has a mapped value, whatever
\* comes before or after it, and a 'Seniority level' item with an unmapped
\* value fails nothing: without a mapped one experience_level stays None
C18_AsStated ==
    (job_details # None /\ C18_WellFormed(raw))
    => LET res == job_details[1]
       IN /\ (res.error = "Could not parse employment type")
                <=> (C18_Mapped(raw, "Employment type", STR_TO_EMPLOYMENT_TYPE_MAP) = {})
          /\ res.error \in {"", "Could not parse employment type",
                             "Could not find applicant count",
                             "Could not parse applicant count"}
          /\ (/\ res.error = ""
              /\ C18_Mapped(raw, "Seniority level", STR_TO_EXPERIENCE_LEVEL_MAP) = {})
                => res.details[1].experience_level = None

\* C19: a slot is held from the start of request() to its return or raise,
\* backoff sleeps included: the requests in a transport call or asleep never
\* exceed max_concurrent_requests, and when that many are asleep no slot is
\* free and no waiting task starts a transport call
C19_Asleep == {t \in TaskSet : tasks[t].pc = "sleep"}

C19_HeldThroughout ==
    /\ Cardinality(Holding) <= max_concurrent_requests
    /\ Cardinality(C19_Asleep) = max_concurrent_requests
          => semaphore = 0 /\ InFlight = {}

C19_NoStartWhenFull ==
    \A t \in TaskSet :
        (tasks[t].pc = "wait" /\ tasks'[t].pc = "inflight")
        => Cardinality(Holding) < max_concurrent_requests

C19_SlotHeldInBackoff == [](C19_HeldThroughout) /\ [][C19_NoStartWhenFull]_vars

C19_Witness ==
    /\ max_concurrent_requests >= 1
    /\ Cardinality(C19_Asleep) = max_concurrent_requests
    /\ \E t \in TaskSet : tasks[t].pc = "wait"

\* C20: under fair scheduling and max_concurrent_requests >= 1 every task
\* issued ends, after at most 4 attempts, and every operation called returns
\* or fails (again and again, all that was issued so far has ended); with
\* max_concurrent_requests = 0 no task leaves the wait for a slot and no
\* operation that issued a task ends
C20_Stuck ==
    /\ \A t \in TaskSet : tasks[t].retry <= RETRY_COUNT
    /\ max_concurrent_requests = 0
          => /\ \A t \in TaskSet : tasks[t].pc = "wait"
             /\ \A c \in CallSet : calls[c].tasks # <<>> => calls[c].status = "pending"

C20_AllEnded ==
    /\ \A t \in TaskSet : Ended(t)
    /\ \A c \in CallSet : calls[c].status \in {"returned", "failed"}

C20_Terminates ==
    [](C20_Stuck) /\ []<>(max_concurrent_requests >= 1 => C20_AllEnded)

C20_Witness ==
    /\ max_concurrent_requests = 1
    /\ Len(tasks) = MaxLiveTasks
    /\ \A t \in TaskSet : Ended(t)
    /\ \E t \in TaskSet : tasks[t].pc = "done"
    /\ \E c \in CallSet : calls[c].op = "fetch_jobs_details" /\ calls[c].status = "failed"

====
